---------------------------- MODULE Spec2Model ----------------------------
(***************************************************************************)
(* A model of whiterven/contentgen: the search-scrape-analyze tool         *)
(* (src/tools/search_scrape.py, class AdvancedSerperSearchTool) and the    *)
(* Flask service that runs it on a background thread per request           *)
(* (src/blogcrew/app.py).                                                  *)
(*                                                                         *)
(* Python strings are TLA+ strings (TLC evaluates Len, SubSeq and \o on    *)
(* them); a Python dict is a function whose DOMAIN is the set of its keys; *)
(* a Python list is a sequence.  Each group of variables belongs to one    *)
(* specification; the other groups stay at their initial value in it.      *)
(***************************************************************************)
EXTENDS Integers, Sequences, FiniteSets, TLC

VARIABLES
    \* _clean_text applied once and twice to a text        (SpecClean)
    ct_text, ct_once, ct_twice,
    \* _estimate_reading_time on a growing text            (SpecRead)
    rt_words, reading_time,
    \* _estimate_credibility on a url and a parsed page    (SpecCred)
    cr_url, cr_soup, credibility_score,
    \* _summarize_text                                     (SpecSumm)
    sentences, word_frequencies, sentence_scores, summary_sentences, summary,
    \* _search                                             (SpecSearch)
    query, response, posts, search_pc, search_return,
    \* _scrape_and_analyze                                 (SpecScrape)
    search_results, analyzed_data, idx, pc, gets, now,
    \* app.py: generate / run_crew / create_crew           (SpecApp)
    api_key_env, reqs, threads, tools, emitted, http_calls

cleanVars  == <<ct_text, ct_once, ct_twice>>
readVars   == <<rt_words, reading_time>>
credVars   == <<cr_url, cr_soup, credibility_score>>
summVars   == <<sentences, word_frequencies, sentence_scores, summary_sentences, summary>>
searchVars == <<query, response, posts, search_pc, search_return>>
scrapeVars == <<search_results, analyzed_data, idx, pc, gets, now>>
appVars    == <<api_key_env, reqs, threads, tools, emitted, http_calls>>
vars == <<cleanVars, readVars, credVars, summVars, searchVars, scrapeVars, appVars>>

\* Python's None.
None == "<None>"

(***************************************************************************)
(* Bounds of the model.                                                    *)
(***************************************************************************)
\* words typed into the text handed to _clean_text
MaxCleanWords == 2
\* words of the text handed to _estimate_reading_time
MaxWords == 402
\* sentences of the text handed to _summarize_text
MaxSentences == 3
\* entries of the provider's "organic" list
MaxOrganic == 6
\* search results handed to _scrape_and_analyze
MaxResults == 3
\* POST /generate requests received
MaxRequests == 2

(***************************************************************************)
(* Python string primitives used by the tool.                              *)
(***************************************************************************)
CharAt(s, i) == SubSeq(s, i, i)
Rest(s, i) == SubSeq(s, i, Len(s))

Lowers == <<"a","b","c","d","e","f","g","h","i","j","k","l","m",
            "n","o","p","q","r","s","t","u","v","w","x","y","z">>
Uppers == <<"A","B","C","D","E","F","G","H","I","J","K","L","M",
            "N","O","P","Q","R","S","T","U","V","W","X","Y","Z">>

LowerChar(c) ==
    IF \E k \in 1..26 : Uppers[k] = c
    THEN Lowers[CHOOSE k \in 1..26 : Uppers[k] = c] ELSE c
UpperChar(c) ==
    IF \E k \in 1..26 : Lowers[k] = c
    THEN Uppers[CHOOSE k \in 1..26 : Lowers[k] = c] ELSE c

\* str.lower(): every character lower-cased (the string is halved at each
\* level of the recursion)
RECURSIVE lower(_)
lower(s) ==
    IF s = "" THEN ""
    ELSE IF Len(s) = 1 THEN LowerChar(s)
    ELSE lower(SubSeq(s, 1, Len(s) \div 2)) \o lower(Rest(s, Len(s) \div 2 + 1))

\* str.startswith(p)
startswith(s, p) == Len(s) >= Len(p) /\ SubSeq(s, 1, Len(p)) = p

\* p in s, for a non-empty p
contains(s, p) == \E i \in 1..(Len(s) - Len(p) + 1) : SubSeq(s, i, i + Len(p) - 1) = p

\* str.find(p, i), 1-based: the index of the first occurrence of p in s at
\* or after i, 0 when there is none
find(s, p, i) ==
    LET hits == {j \in i..(Len(s) - Len(p) + 1) : SubSeq(s, j, j + Len(p) - 1) = p} IN
    IF hits = {} THEN 0 ELSE CHOOSE j \in hits : \A k \in hits : j <= k

\* str.replace(p, ""): the non-overlapping occurrences of p, found left to
\* right in one pass, are removed; the result is not scanned again.
RECURSIVE replace(_, _)
replace(s, p) ==
    LET i == find(s, p, 1) IN
    IF i = 0 THEN s ELSE SubSeq(s, 1, i - 1) \o replace(Rest(s, i + Len(p)), p)

\* the characters str.split() splits on
Whitespace == {" ", "\t", "\n"}

\* the least member of a non-empty set of integers
Least(S) == CHOOSE j \in S : \A k \in S : j <= k

\* str.split(): the maximal runs of non-whitespace characters, in order;
\* splitFrom yields those that start at or after index i
RECURSIVE splitFrom(_, _)
splitFrom(s, i) ==
    LET starts == {j \in i..Len(s) : CharAt(s, j) \notin Whitespace} IN
    IF starts = {} THEN <<>>
    ELSE LET b == Least(starts)
             ends == {j \in b..Len(s) : CharAt(s, j) \in Whitespace}
             e == IF ends = {} THEN Len(s) + 1 ELSE Least(ends)
         IN <<SubSeq(s, b, e - 1)>> \o splitFrom(s, e)

\* a tokenizer that loses the last word
splitDropLast(s) ==
    LET ws == splitFrom(s, 1) IN
    IF ws = <<>> THEN ws ELSE SubSeq(ws, 1, Len(ws) - 1)

split(s) == splitFrom(s, 1)

\* sep.join(list)
RECURSIVE join(_, _)
join(sep, ws) ==
    IF ws = <<>> THEN ""
    ELSE IF Len(ws) = 1 THEN ws[1]
    ELSE ws[1] \o sep \o join(sep, Tail(ws))

\* str.capitalize(): first character upper-cased, the rest lower-cased
capitalize(s) == IF s = "" THEN "" ELSE UpperChar(CharAt(s, 1)) \o lower(Rest(s, 2))

(***************************************************************************)
(* _clean_text and _is_relevant_paragraph.                                 *)
(***************************************************************************)
unwanted_phrases ==
    <<"sign in", "sign up", "join us", "get started", "subscribe", "cookie",
      "privacy policy", "terms of service", "all rights reserved">>

\* the for loop of _clean_text over the first k phrases
RECURSIVE removePhrases(_, _)
removePhrases(s, k) ==
    IF k = 0 THEN s ELSE replace(removePhrases(s, k - 1), unwanted_phrases[k])

_clean_text(text) ==
    capitalize(join(" ", split(removePhrases(lower(text), Len(unwanted_phrases)))))

min_length == 50

_is_relevant_paragraph(text) ==
    /\ ~(Len(text) < min_length)
    /\ \A k \in 1..Len(unwanted_phrases) : ~contains(lower(text), unwanted_phrases[k])

(***************************************************************************)
(* _estimate_reading_time.  The text is held as the list its split()       *)
(* yields.                                                                 *)
(***************************************************************************)
\* math.floor in place of math.ceil
floorDiv(a, b) == a \div b

\* math.ceil(a / b) for a >= 0, b > 0
ceilDiv(a, b) == (a + b - 1) \div b

WordsPerMinute == 200

_estimate_reading_time(words) ==
    LET word_count == Len(words)
        reading_time_minutes == ceilDiv(word_count, WordsPerMinute)
    IN ToString(reading_time_minutes) \o " minute"
           \o (IF reading_time_minutes # 1 THEN "s" ELSE "")

(***************************************************************************)
(* _estimate_credibility.  Scores are kept in hundredths: every sum of the *)
(* bonuses 0.3, 0.2, 0.2, 0.2, 0.1 taken in the code's order rounds, under *)
(* round(score, 2), to the exact multiple of 0.1, so 0.7 is 70.  A parsed  *)
(* page (soup) is a record of what the function reads from it.             *)
(***************************************************************************)
\* the longest prefix of s holding none of "/", "?", "#"
upToDelimiter(s) ==
    LET ds == {j \in 1..Len(s) : CharAt(s, j) \in {"/", "?", "#"}} IN
    IF ds = {} THEN s ELSE SubSeq(s, 1, Least(ds) - 1)

\* urlparse(url).netloc: what follows "scheme://" up to the path, query or
\* fragment; empty for a url without "//" after its scheme
netloc(url) ==
    LET i == find(url, "://", 1) IN
    IF i = 0 THEN "" ELSE upToDelimiter(Rest(url, i + 3))

trusted_domains == <<".edu", ".gov", ".org">>

\* the content-length test written with >= in place of >
_estimate_credibility_ge(url, soup) ==
    LET domain == netloc(url) IN
      (IF \E k \in 1..Len(trusted_domains) : contains(domain, trusted_domains[k])
       THEN 30 ELSE 0)
    + (IF soup.text_length >= 2000 THEN 20 ELSE 0)
    + (IF soup.author_tag \/ soup.author_class THEN 20 ELSE 0)
    + (IF soup.cite_tag \/ soup.reference_class THEN 20 ELSE 0)
    + (IF startswith(url, "https") THEN 10 ELSE 0)

_estimate_credibility(url, soup) ==
    LET domain == netloc(url)
        content_length == soup.text_length
        s1 == IF \E k \in 1..Len(trusted_domains) : contains(domain, trusted_domains[k])
              THEN 30 ELSE 0
        s2 == IF content_length > 2000 THEN s1 + 20 ELSE s1
        s3 == IF soup.author_tag \/ soup.author_class THEN s2 + 20 ELSE s2
        s4 == IF soup.cite_tag \/ soup.reference_class THEN s3 + 20 ELSE s3
        s5 == IF startswith(url, "https") THEN s4 + 10 ELSE s4
    IN s5

(***************************************************************************)
(* _summarize_text.  The text is held as the list of sentences that        *)
(* sent_tokenize yields for it.  A FreqDist is a function from the counted *)
(* words to their counts.  sentence_scores is a dict: its keys in          *)
(* insertion order (keys) and the value of each (val).                     *)
(***************************************************************************)
\* stopwords.words('english'), the entries that the modelled texts can hold
stop_words == {"the", "a", "at", "is", "and", "of"}

\* number of members of the list ws equal to w
RECURSIVE count(_, _)
count(ws, w) ==
    IF ws = <<>> THEN 0 ELSE (IF Head(ws) = w THEN 1 ELSE 0) + count(Tail(ws), w)

\* [f(x) for x in ws]
RECURSIVE lowerAll(_)
lowerAll(ws) == IF ws = <<>> THEN <<>> ELSE <<lower(Head(ws))>> \o lowerAll(Tail(ws))

\* the words of every sentence, in text order
RECURSIVE allWords(_)
allWords(sents) ==
    IF sents = <<>> THEN <<>> ELSE split(Head(sents)) \o allWords(Tail(sents))

\* FreqDist(word.lower() for sentence in sentences for word in sentence.split()
\*          if word.lower() not in stop_words)
FreqDist(sents) ==
    LET ws == lowerAll(allWords(sents))
        kept == {ws[i] : i \in 1..Len(ws)} \ stop_words
    IN [w \in kept |-> count(ws, w)]

\* the inner loop of the scoring: one sentence's words added to its entry
RECURSIVE scoreWords(_, _, _, _)
scoreWords(scores, sentence, ws, wf) ==
    IF ws = <<>> THEN scores
    ELSE LET w == lower(Head(ws)) IN
         IF w \in DOMAIN wf
         THEN IF sentence \notin DOMAIN scores.val
              THEN scoreWords([keys |-> Append(scores.keys, sentence),
                               val  |-> [k \in DOMAIN scores.val \cup {sentence} |->
                                            IF k = sentence THEN wf[w] ELSE scores.val[k]]],
                              sentence, Tail(ws), wf)
              ELSE scoreWords([scores EXCEPT !.val[sentence] = @ + wf[w]],
                              sentence, Tail(ws), wf)
         ELSE scoreWords(scores, sentence, Tail(ws), wf)

\* the outer loop: every member of the sentence list, repeated ones included
RECURSIVE scoreSentences(_, _, _)
scoreSentences(scores, sents, wf) ==
    IF sents = <<>> THEN scores
    ELSE scoreSentences(scoreWords(scores, Head(sents), split(Head(sents)), wf),
                        Tail(sents), wf)

EmptyDict == [keys |-> <<>>, val |-> <<>>]

\* heapq.nlargest(n, d, key=d.get): sorted(d, key=d.get, reverse=True)[:n],
\* a stable sort, so equal scores keep the dict's order
RECURSIVE nlargest(_, _, _)
nlargest(n, keys, val) ==
    IF n = 0 \/ keys = <<>> THEN <<>>
    ELSE LET best == CHOOSE i \in 1..Len(keys) :
                        /\ \A j \in 1..Len(keys) : val[keys[j]] <= val[keys[i]]
                        /\ \A j \in 1..(i - 1) : val[keys[j]] < val[keys[i]]
             rest == SubSeq(keys, 1, best - 1) \o SubSeq(keys, best + 1, Len(keys))
         IN <<keys[best]>> \o nlargest(n - 1, rest, val)

MaxSummarySentences == 15
num_words == 500

\* the summary text: the chosen sentences joined, cut to num_words words
summaryText(chosen) ==
    LET joined == join(" ", chosen)
        words == split(joined)
    IN IF Len(words) > num_words
       THEN join(" ", SubSeq(words, 1, num_words)) \o "..."
       ELSE joined

\* _summarize_text on the sentence list of a text: its locals and its result
_summarize_text(sents) ==
    LET wf == FreqDist(sents)
        scores == scoreSentences(EmptyDict, sents, wf)
        chosen == nlargest(MaxSummarySentences, scores.keys, scores.val)
    IN [word_frequencies |-> wf, sentence_scores |-> scores,
        summary_sentences |-> chosen, summary |-> summaryText(chosen)]

(***************************************************************************)
(* The tokenizers of nltk, as far as the modelled texts need them:         *)
(* sent_tokenize ends a sentence after a word that ends in ".", "!" or     *)
(* "?"; word_tokenize splits on whitespace and detaches one such final     *)
(* mark from a word.                                                       *)
(***************************************************************************)
EndMarks == {".", "!", "?"}

RECURSIVE sentFrom(_, _, _)
sentFrom(ws, cur, acc) ==
    IF ws = <<>> THEN (IF cur = <<>> THEN acc ELSE Append(acc, join(" ", cur)))
    ELSE LET w == Head(ws) IN
         IF CharAt(w, Len(w)) \in EndMarks
         THEN sentFrom(Tail(ws), <<>>, Append(acc, join(" ", Append(cur, w))))
         ELSE sentFrom(Tail(ws), Append(cur, w), acc)

sent_tokenize(text) == sentFrom(split(text), <<>>, <<>>)

RECURSIVE detachMarks(_)
detachMarks(ws) ==
    IF ws = <<>> THEN <<>>
    ELSE LET w == Head(ws) IN
         (IF Len(w) > 1 /\ CharAt(w, Len(w)) \in EndMarks
          THEN <<SubSeq(w, 1, Len(w) - 1), CharAt(w, Len(w))>> ELSE <<w>>)
         \o detachMarks(Tail(ws))

word_tokenize(text) == detachMarks(split(text))

\* str.isalnum()
Digits == {"0", "1", "2", "3", "4", "5", "6", "7", "8", "9"}
isalnum(w) ==
    /\ w # ""
    /\ \A i \in 1..Len(w) :
           \/ CharAt(w, i) \in Digits
           \/ \E k \in 1..26 : CharAt(w, i) \in {Lowers[k], Uppers[k]}

\* the members of ws that satisfy the keyword filter, in order
RECURSIVE filterWords(_)
filterWords(ws) ==
    IF ws = <<>> THEN <<>>
    ELSE (IF isalnum(Head(ws)) /\ Head(ws) \notin stop_words THEN <<Head(ws)>> ELSE <<>>)
         \o filterWords(Tail(ws))

\* the distinct members of ws in order of first occurrence
RECURSIVE distinct(_, _)
distinct(ws, seen) ==
    IF ws = <<>> THEN <<>>
    ELSE IF Head(ws) \in seen THEN distinct(Tail(ws), seen)
    ELSE <<Head(ws)>> \o distinct(Tail(ws), seen \cup {Head(ws)})

num_keywords == 10

\* FreqDist(filtered_words).most_common(num_keywords), the words only
_extract_keywords(text) ==
    LET filtered_words == filterWords(word_tokenize(lower(text)))
        word_freq == [w \in {filtered_words[i] : i \in 1..Len(filtered_words)} |->
                         count(filtered_words, w)]
    IN nlargest(num_keywords, distinct(filtered_words, {}), word_freq)

(***************************************************************************)
(* _search.  The outcome of the one HTTP call is a record: an exception    *)
(* raised by requests.post, or a response with a status and a body.  A     *)
(* body is a JSON object (with or without "organic") or is not JSON, in    *)
(* which case response.json() raises requests' JSONDecodeError, a          *)
(* RequestException.                                                       *)
(***************************************************************************)
\* the exception classes that "except requests.exceptions.RequestException" catches
RequestException == {"ConnectionError", "Timeout", "HTTPError", "JSONDecodeError", "MissingSchema"}

\* a handler that catches connection failures only
caughtConnectionOnly(cls) == cls \in {"ConnectionError", "Timeout"}

caughtBySearch(cls) == cls \in RequestException

\* the exception the try block of _search raises, "" when it raises none
searchRaises(resp) ==
    IF resp.raised # "" THEN resp.raised                  \* requests.post
    ELSE IF resp.status >= 400 THEN "HTTPError"           \* raise_for_status
    ELSE IF ~resp.is_json THEN "JSONDecodeError"          \* response.json
    ELSE ""

SearchLimit == 5

\* _search after the call: [raised, value]
_search(resp) ==
    LET cls == searchRaises(resp) IN
    IF cls = ""
    THEN LET organic == IF resp.has_organic THEN resp.organic ELSE <<>> IN
         [raised |-> "",
          value |-> SubSeq(organic, 1, IF Len(organic) < SearchLimit
                                       THEN Len(organic) ELSE SearchLimit)]
    ELSE IF caughtBySearch(cls)
    THEN [raised |-> "",
          value |-> <<[error |-> "An error occurred while searching: " \o resp.message]>>]
    ELSE [raised |-> cls, value |-> <<>>]

(***************************************************************************)
(* _scrape_and_analyze: the body of its for loop for one search result.    *)
(* A web outcome is what requests.get yields for the url: an exception, or *)
(* a response with a status and a parsed page (soup).                      *)
(***************************************************************************)
\* dict.get(key, default)
get(dict, key, default) == IF key \in DOMAIN dict THEN dict[key] ELSE default

\* _clean_text raises AttributeError on an argument that is not a string
\* (None has no lower())
cleanRaises(text) == text = None

\* [self._clean_text(p.text) for p in soup.find_all('p')
\*      if self._is_relevant_paragraph(p.text)]
RECURSIVE cleanRelevant(_)
cleanRelevant(ps) ==
    IF ps = <<>> THEN <<>>
    ELSE (IF _is_relevant_paragraph(Head(ps)) THEN <<_clean_text(Head(ps))>> ELSE <<>>)
         \o cleanRelevant(Tail(ps))

\* the try block: [raised, message] when it raises, [raised, record] when
\* it reaches the append
tryBlock(result, url, web, clock) ==
    IF url = None
    THEN [raised |-> TRUE, message |-> "Invalid URL 'None': No scheme supplied"]
    ELSE IF web.raised # ""
    THEN [raised |-> TRUE, message |-> web.raised]
    ELSE IF web.status >= 400
    THEN [raised |-> TRUE, message |-> ToString(web.status) \o " Error for url: " \o url]
    ELSE LET soup == web.soup IN
    IF soup.has_title /\ cleanRaises(soup.title_string)
    THEN [raised |-> TRUE, message |-> "'NoneType' object has no attribute 'lower'"]
    ELSE
    LET title == IF soup.has_title THEN _clean_text(soup.title_string)
                 ELSE "No title found"
        paragraphs == cleanRelevant(soup.paragraphs)
        full_text == join(" ", paragraphs)
        snippet == get(result, "snippet", "No snippet available")
    IN IF cleanRaises(snippet)
       THEN [raised |-> TRUE, message |-> "'NoneType' object has no attribute 'lower'"]
       ELSE [raised |-> FALSE,
             record |->
               [url |-> url,
                title |-> title,
                search_snippet |-> _clean_text(snippet),
                summary |-> _summarize_text(sent_tokenize(full_text)).summary,
                keywords |-> _extract_keywords(full_text),
                reading_time |-> _estimate_reading_time(split(full_text)),
                credibility_score |-> _estimate_credibility(url, soup),
                scraped_date |-> clock,
                search_date |-> get(result, "date", None)]]

\* the except block: the Failure record, or the exception that building it
\* raises
exceptBlock(result, url, message, clock) ==
    LET snippet == get(result, "snippet", "No snippet available") IN
    IF cleanRaises(snippet)
    THEN [raised |-> TRUE, message |-> "'NoneType' object has no attribute 'lower'"]
    ELSE [raised |-> FALSE,
          record |->
            [url |-> url,
             error |-> "Failed to scrape or analyze: " \o message,
             search_snippet |-> _clean_text(snippet),
             scraped_date |-> clock,
             search_date |-> get(result, "date", None)]]

\* one pass of the loop body: the record appended, or the exception let out
processResult(result, web, clock) ==
    LET url == get(result, "link", None)
        t == tryBlock(result, url, web, clock)
    IN IF ~t.raised THEN t ELSE exceptBlock(result, url, t.message, clock)

(***************************************************************************)
(* Initial values of each group of variables.                              *)
(***************************************************************************)
InitClean == ct_text = "" /\ ct_once = None /\ ct_twice = None
InitRead  == rt_words = <<>> /\ reading_time = None
\* credibility_score -1: not computed yet
InitCred  == cr_url = None /\ cr_soup = None /\ credibility_score = -1
InitSumm  == /\ sentences = <<>> /\ word_frequencies = <<>> /\ sentence_scores = EmptyDict
             /\ summary_sentences = <<>> /\ summary = None
InitSearch == /\ query = None /\ response = <<>> /\ posts = 0
              /\ search_pc = "idle" /\ search_return = <<>>
InitScrape == /\ search_results = <<>> /\ analyzed_data = <<>> /\ idx = 0
              /\ pc = "idle" /\ gets = <<>> /\ now = 0
InitApp == /\ api_key_env = "key" /\ reqs = <<>> /\ threads = <<>> /\ tools = {}
           /\ emitted = <<>> /\ http_calls = {}

Init == InitClean /\ InitRead /\ InitCred /\ InitSumm /\ InitSearch /\ InitScrape /\ InitApp

(***************************************************************************)
(* SpecClean: a text is typed word by word, then cleaned, then the result  *)
(* is cleaned again.                                                       *)
(***************************************************************************)
CleanWords == {"sign", "in", "Up", "a", "Cookies"}
CleanLeads == {"", " "}
CleanSeps  == {" ", "\t", "  "}

TypeWord(sep, w) ==
    /\ ct_once = None
    /\ Len(split(ct_text)) < MaxCleanWords
    /\ ct_text' = ct_text \o sep \o w
    /\ UNCHANGED <<ct_once, ct_twice>>
    /\ UNCHANGED <<readVars, credVars, summVars, searchVars, scrapeVars, appVars>>

TypeFirst == ct_text = "" /\ \E sep \in CleanLeads, w \in CleanWords : TypeWord(sep, w)
TypeNext  == ct_text # "" /\ \E sep \in CleanSeps, w \in CleanWords : TypeWord(sep, w)

Clean ==
    /\ ct_once = None
    /\ ct_once' = _clean_text(ct_text)
    /\ UNCHANGED <<ct_text, ct_twice>>
    /\ UNCHANGED <<readVars, credVars, summVars, searchVars, scrapeVars, appVars>>

CleanAgain ==
    /\ ct_once # None /\ ct_twice = None
    /\ ct_twice' = _clean_text(ct_once)
    /\ UNCHANGED <<ct_text, ct_once>>
    /\ UNCHANGED <<readVars, credVars, summVars, searchVars, scrapeVars, appVars>>

NextClean == TypeFirst \/ TypeNext \/ Clean \/ CleanAgain
SpecClean == Init /\ [][NextClean]_vars

\* no denylisted phrase occurs in x, in any letter case
NoDenylistedPhrase(x) ==
    \A k \in 1..Len(unwanted_phrases) : ~contains(lower(x), unwanted_phrases[k])

\* no whitespace at either end of x and no two whitespace characters in a row
NoExtraWhitespace(x) ==
    /\ x # "" => CharAt(x, 1) \notin Whitespace /\ CharAt(x, Len(x)) \notin Whitespace
    /\ \A i \in 1..(Len(x) - 1) :
           ~(CharAt(x, i) \in Whitespace /\ CharAt(x, i + 1) \in Whitespace)

\* every whitespace character of x is the space character
OnlySpaces(x) == \A i \in 1..Len(x) : CharAt(x, i) \in Whitespace => CharAt(x, i) = " "

\* C6 as stated: on a text with no denylisted phrase and no extra whitespace,
\* whatever single whitespace characters separate its words, cleaning the
\* cleaned text changes nothing.
C6_IdempotentAnyWhitespace ==
    (ct_twice # None /\ NoDenylistedPhrase(ct_text) /\ NoExtraWhitespace(ct_text))
        => ct_twice = ct_once

\* C6 amended: on a text with no denylisted phrase (in any letter case), no
\* extra whitespace, and only space characters between its words,
\* _clean_text(_clean_text(x)) = _clean_text(x).
C6_IdempotentSingleSpaces ==
    (/\ ct_twice # None
     /\ NoDenylistedPhrase(ct_text)
     /\ NoExtraWhitespace(ct_text)
     /\ OnlySpaces(ct_text))
        => ct_twice = ct_once

\* a two-word, space-separated, mixed-case text without a denylisted phrase
\* has been cleaned twice, and cleaning changed it
C6_Witness ==
    /\ ct_twice # None
    /\ NoDenylistedPhrase(ct_text) /\ NoExtraWhitespace(ct_text) /\ OnlySpaces(ct_text)
    /\ Len(split(ct_text)) = 2
    /\ ct_once # ct_text
    /\ ct_twice = ct_once

(***************************************************************************)
(* SpecRead: a text grows one word at a time; its reading time is          *)
(* estimated at any length.                                                *)
(***************************************************************************)
AddWord ==
    /\ Len(rt_words) < MaxWords
    /\ rt_words' = Append(rt_words, "word")
    /\ reading_time' = None
    /\ UNCHANGED <<cleanVars, credVars, summVars, searchVars, scrapeVars, appVars>>

EstimateReadingTime ==
    /\ reading_time = None
    /\ reading_time' = _estimate_reading_time(rt_words)
    /\ UNCHANGED rt_words
    /\ UNCHANGED <<cleanVars, credVars, summVars, searchVars, scrapeVars, appVars>>

NextRead == AddWord \/ EstimateReadingTime
SpecRead == Init /\ [][NextRead]_vars

\* "N minute" for N = 1, "N minutes" otherwise
MinutesText(N) == IF N = 1 THEN "1 minute" ELSE ToString(N) \o " minutes"

\* N is the least integer with 200 * N >= n
IsCeilOf(N, n) == 200 * N >= n /\ (N = 0 \/ 200 * (N - 1) < n)

\* C7: the reading time of a text of n words is ceil(n / 200) minutes,
\* written "N minute" for N = 1 and "N minutes" otherwise (N = 0 included);
\* it never decreases as words are added; 199 and 200 words give "1 minute",
\* 201 words give "2 minutes".
C7_ReadingTime ==
    reading_time # None =>
        LET n == Len(rt_words) IN
        /\ \E N \in 0..n :
              /\ IsCeilOf(N, n)
              /\ reading_time = MinutesText(N)
              /\ \A m \in 0..n : \E M \in 0..N :
                     _estimate_reading_time(SubSeq(rt_words, 1, m)) = MinutesText(M)
        /\ n = 0 => reading_time = "0 minutes"
        /\ n \in {199, 200} => reading_time = "1 minute"
        /\ n = 201 => reading_time = "2 minutes"

\* the reading time of a 201-word text has been estimated
C7_Witness == Len(rt_words) = 201 /\ reading_time = "2 minutes"

(***************************************************************************)
(* SpecCred: a url and a parsed page are picked, then scored.              *)
(***************************************************************************)
CredUrls ==
    {"http://a.com/p", "https://a.com/p", "https://mit.edu/", "http://x.gov",
     "https://b.org/a?b", "http://edu.com/", "http://a.com/b.org", "https://a.com/x.edu"}

CredSoups ==
    [text_length : {0, 2000, 2001}, author_tag : BOOLEAN, author_class : BOOLEAN,
     cite_tag : BOOLEAN, reference_class : BOOLEAN]

PickPage ==
    /\ cr_url = None
    /\ \E u \in CredUrls, sp \in CredSoups : cr_url' = u /\ cr_soup' = sp
    /\ UNCHANGED credibility_score
    /\ UNCHANGED <<cleanVars, readVars, summVars, searchVars, scrapeVars, appVars>>

EstimateCredibility ==
    /\ cr_url # None /\ credibility_score = -1
    /\ credibility_score' = _estimate_credibility(cr_url, cr_soup)
    /\ UNCHANGED <<cr_url, cr_soup>>
    /\ UNCHANGED <<cleanVars, readVars, summVars, searchVars, scrapeVars, appVars>>

NextCred == PickPage \/ EstimateCredibility
SpecCred == Init /\ [][NextCred]_vars

\* the five signals, read off the url and the page
SchemeOf(url) == LET i == find(url, ":", 1) IN IF i = 0 THEN "" ELSE SubSeq(url, 1, i - 1)
DomainOf(url) ==
    LET i == find(url, "//", 1) IN
    IF i = 0 THEN ""
    ELSE LET j == find(url, "/", i + 2) IN
         LET k == find(url, "?", i + 2) IN
         LET e == IF j = 0 THEN (IF k = 0 THEN Len(url) + 1 ELSE k)
                  ELSE (IF k = 0 THEN j ELSE IF j < k THEN j ELSE k)
         IN SubSeq(url, i + 2, e - 1)
SigDomain(url) == \E t \in {".edu", ".gov", ".org"} : contains(DomainOf(url), t)
SigLong(sp)    == sp.text_length > 2000
SigAuthor(sp)  == sp.author_tag \/ sp.author_class
SigCited(sp)   == sp.cite_tag \/ sp.reference_class
SigHttps(url)  == SchemeOf(url) = "https"
Bonus(b, h) == IF b THEN h ELSE 0

\* C8: the score is exactly the sum of the bonuses that apply (0.3 trusted
\* domain, 0.2 text longer than 2000 characters, 0.2 author marker, 0.2
\* citation marker, 0.1 https), so it lies in [0.0, 1.0], is 1.0 only when
\* all five signals hold, and is 0.0 when none holds.  (Hundredths.)
C8_Credibility ==
    credibility_score # -1 =>
        /\ credibility_score =
               Bonus(SigDomain(cr_url), 30) + Bonus(SigLong(cr_soup), 20)
             + Bonus(SigAuthor(cr_soup), 20) + Bonus(SigCited(cr_soup), 20)
             + Bonus(SigHttps(cr_url), 10)
        /\ credibility_score \in 0..100
        /\ credibility_score = 100 =>
               /\ SigDomain(cr_url) /\ SigLong(cr_soup) /\ SigAuthor(cr_soup)
               /\ SigCited(cr_soup) /\ SigHttps(cr_url)
        /\ (/\ ~SigDomain(cr_url) /\ ~SigLong(cr_soup) /\ ~SigAuthor(cr_soup)
            /\ ~SigCited(cr_soup) /\ ~SigHttps(cr_url)) => credibility_score = 0

\* a page with all five signals has been scored 1.0
C8_Witness ==
    /\ credibility_score = 100
    /\ cr_url = "https://mit.edu/" /\ cr_soup.text_length = 2001

(***************************************************************************)
(* SpecSumm: a text is written sentence by sentence, then summarized.      *)
(***************************************************************************)
SummSentences ==
    {"Cats purr.", "cats sleep.", "The dog is at the door.", "the a of", "Dogs chase Cats and cats"}

AddSentence ==
    /\ summary = None
    /\ Len(sentences) < MaxSentences
    /\ \E st \in SummSentences : sentences' = Append(sentences, st)
    /\ UNCHANGED <<word_frequencies, sentence_scores, summary_sentences, summary>>
    /\ UNCHANGED <<cleanVars, readVars, credVars, searchVars, scrapeVars, appVars>>

Summarize ==
    /\ summary = None
    /\ LET r == _summarize_text(sentences)
       IN /\ word_frequencies' = r.word_frequencies
          /\ sentence_scores' = r.sentence_scores
          /\ summary_sentences' = r.summary_sentences
          /\ summary' = r.summary
    /\ UNCHANGED sentences
    /\ UNCHANGED <<cleanVars, readVars, credVars, searchVars, scrapeVars, appVars>>

NextSumm == AddSentence \/ Summarize
SpecSumm == Init /\ [][NextSumm]_vars

\* occurrences, in the whole text, of words that case-fold to w and are not
\* stopwords
TableCount(w) == IF w \in stop_words THEN 0 ELSE count(lowerAll(allWords(sentences)), w)

\* the sum of the table counts of the words of one sentence, each word
\* counted once per occurrence in that sentence
RECURSIVE SumCounts(_)
SumCounts(ws) == IF ws = <<>> THEN 0 ELSE TableCount(lower(Head(ws))) + SumCounts(Tail(ws))

\* C9: the score that ranks a sentence is the sum, over the words of that
\* one sentence, of the table counts of the case-folded words, also when the
\* sentence occurs more than once in the text; at most 15 sentences are
\* selected, in non-increasing score order.
C9_ScoreOfOneSentence ==
    summary # None =>
        /\ \A st \in DOMAIN sentence_scores.val :
               sentence_scores.val[st] = SumCounts(split(st))
        /\ Len(summary_sentences) <= 15
        /\ \A i \in 1..(Len(summary_sentences) - 1) :
               sentence_scores.val[summary_sentences[i]]
                   >= sentence_scores.val[summary_sentences[i + 1]]

(***************************************************************************)
(* SpecSearch: one call of _search, whatever the HTTP call yields.         *)
(***************************************************************************)
Queries == {"quantum computing", ""}

OrganicPool ==
    { [link |-> "https://mit.edu/", snippet |-> "Sign in to read", date |-> "2 days ago"],
      [link |-> "http://a.com/p", snippet |-> "Cats purr."] }

RECURSIVE SeqsUpTo(_, _)
SeqsUpTo(S, n) ==
    IF n = 0 THEN {<<>>}
    ELSE LET shorter == SeqsUpTo(S, n - 1) IN
         shorter \cup {Append(q, x) : q \in shorter, x \in S}

NoBody == [is_json |-> FALSE, has_organic |-> FALSE, organic |-> <<>>]

SearchOutcomes ==
       { [raised |-> c, status |-> 0, message |-> c] @@ NoBody
           : c \in {"ConnectionError", "Timeout"} }
  \cup { [raised |-> "", status |-> st, message |-> ToString(st) \o " Error"] @@ NoBody
           : st \in {403, 500} }
  \cup { [raised |-> "", status |-> 200, message |-> "Expecting value"] @@ NoBody }
  \cup { [raised |-> "", status |-> 200, message |-> "",
          is_json |-> TRUE, has_organic |-> FALSE, organic |-> <<>>] }
  \cup { [raised |-> "", status |-> 200, message |-> "",
          is_json |-> TRUE, has_organic |-> TRUE, organic |-> o]
           : o \in SeqsUpTo(OrganicPool, MaxOrganic) }

\* requests.post(self.base_url, headers=headers, json=payload)
Post ==
    /\ search_pc = "idle"
    /\ \E q \in Queries, r \in SearchOutcomes : query' = q /\ response' = r
    /\ posts' = posts + 1
    /\ search_pc' = "posted"
    /\ UNCHANGED search_return
    /\ UNCHANGED <<cleanVars, readVars, credVars, summVars, scrapeVars, appVars>>

\* the rest of _search: it returns a list or lets an exception out
SearchReturn ==
    /\ search_pc = "posted"
    /\ LET r == _search(response) IN
       /\ search_pc' = IF r.raised = "" THEN "returned" ELSE "raised"
       /\ search_return' = r.value
    /\ UNCHANGED <<query, response, posts>>
    /\ UNCHANGED <<cleanVars, readVars, credVars, summVars, scrapeVars, appVars>>

NextSearch == Post \/ SearchReturn
SpecSearch == Init /\ [][NextSearch]_vars

HttpCallFailed ==
    response.raised # "" \/ response.status \notin 200..299 \/ ~response.is_json

ScrapeRecords ==
    { [link |-> "https://mit.edu/", snippet |-> "Sign in to  read", date |-> "2 days ago"],
      [link |-> "http://a.com/p"],
      [error |-> "An error occurred while searching: Timeout"],
      [link |-> "http://a.com/p", snippet |-> None] }

LongParagraph == "Cats purr at night. Dogs chase cats and bark at the door!"
BoilerParagraph == "Please subscribe to our newsletter to keep reading this page."

ScrapeSoups ==
    { [has_title |-> TRUE, title_string |-> " Cats  and Dogs ",
       paragraphs |-> <<LongParagraph, "Short.", BoilerParagraph>>,
       text_length |-> 2001, author_tag |-> TRUE, author_class |-> FALSE,
       cite_tag |-> FALSE, reference_class |-> FALSE],
      [has_title |-> FALSE, title_string |-> None, paragraphs |-> <<>>,
       text_length |-> 0, author_tag |-> FALSE, author_class |-> FALSE,
       cite_tag |-> FALSE, reference_class |-> FALSE],
      [has_title |-> TRUE, title_string |-> None, paragraphs |-> <<LongParagraph>>,
       text_length |-> 57, author_tag |-> FALSE, author_class |-> FALSE,
       cite_tag |-> TRUE, reference_class |-> FALSE] }

NoSoup == CHOOSE sp \in ScrapeSoups : ~sp.has_title

WebOutcomes ==
       { [raised |-> c, status |-> 0, soup |-> NoSoup] : c \in {"ConnectionError", "Timeout"} }
  \cup { [raised |-> "", status |-> 404, soup |-> NoSoup] }
  \cup { [raised |-> "", status |-> 200, soup |-> sp] : sp \in ScrapeSoups }

\* the caller puts the argument together
AddResult ==
    /\ pc = "idle"
    /\ Len(search_results) < MaxResults
    /\ \E r \in ScrapeRecords : search_results' = Append(search_results, r)
    /\ UNCHANGED <<analyzed_data, idx, pc, gets, now>>
    /\ UNCHANGED <<cleanVars, readVars, credVars, summVars, searchVars, appVars>>

\* analyzed_data = []
Enter ==
    /\ pc = "idle"
    /\ pc' = "loop" /\ idx' = 1 /\ analyzed_data' = <<>>
    /\ UNCHANGED <<search_results, gets, now>>
    /\ UNCHANGED <<cleanVars, readVars, credVars, summVars, searchVars, appVars>>

\* one pass of "for result in search_results"
Iterate ==
    /\ pc = "loop" /\ idx <= Len(search_results)
    /\ \E web \in WebOutcomes :
          LET r == processResult(search_results[idx], web, now) IN
          /\ gets' = Append(gets, idx)
          /\ now' = now + 1
          /\ IF r.raised
             THEN pc' = "raised" /\ UNCHANGED <<analyzed_data, idx>>
             ELSE /\ analyzed_data' = Append(analyzed_data, r.record)
                  /\ idx' = idx + 1
                  /\ pc' = pc
    /\ UNCHANGED search_results
    /\ UNCHANGED <<cleanVars, readVars, credVars, summVars, searchVars, appVars>>

\* return analyzed_data
Return ==
    /\ pc = "loop" /\ idx > Len(search_results)
    /\ pc' = "done"
    /\ UNCHANGED <<search_results, analyzed_data, idx, gets, now>>
    /\ UNCHANGED <<cleanVars, readVars, credVars, summVars, searchVars, appVars>>

NextScrape == AddResult \/ Enter \/ Iterate \/ Return
SpecScrape == Init /\ [][NextScrape]_vars

SuccessKeys == {"url", "title", "search_snippet", "summary", "keywords", "reading_time",
                "credibility_score", "scraped_date", "search_date"}
FailureKeys == {"url", "error", "search_snippet", "scraped_date", "search_date"}

\* the call is over: it has returned, or an exception has left it
CallOver == pc \in {"done", "raised"}

\* candidates whose pass of the loop has ended, by an append or by an exception
Processed == IF pc = "raised" THEN idx ELSE IF pc = "idle" THEN 0 ELSE idx - 1

\* C1: for every input list, the call returns a list with one record per
\* input record, in input order, the i-th record's url being the i-th
\* input's link (None for a record without one).
C1_OneRecordPerResult ==
    CallOver =>
        /\ pc = "done"
        /\ Len(analyzed_data) = Len(search_results)
        /\ \A i \in 1..Len(search_results) :
               /\ "url" \in DOMAIN analyzed_data[i]
               /\ analyzed_data[i].url = get(search_results[i], "link", None)

\* C2: no exception reaches the caller, whatever the input and the outcomes
\* of fetching, parsing and analysing, building the Failure record included.
C2_NoExceptionEscapes == pc # "raised"

\* C3: every candidate that has been processed ended as a Success record or
\* as a Failure record, never a mix, and its url was fetched at most once.
C3_TwoTerminalStates ==
    /\ Len(analyzed_data) = Processed
    /\ \A i \in 1..Len(analyzed_data) : DOMAIN analyzed_data[i] \in {SuccessKeys, FailureKeys}
    /\ \A i \in 1..Len(search_results) :
           Cardinality({k \in 1..Len(gets) : gets[k] = i}) <= 1

(***************************************************************************)
(* SpecApp: the Flask service.  SERPER_API_KEY is set, empty or unset when *)
(* the process starts.  generate() takes the request's fields, draws a     *)
(* uuid4, starts a thread on run_crew and answers 202; the thread builds   *)
(* its crew (and with it the search tool), runs it, and emits one event.   *)
(* The n-th uuid4 of the process is the string "uuid-n": two draws never   *)
(* give the same id.  A tool instance is named by the thread whose         *)
(* create_crew call constructed it; http_calls is the set of outbound      *)
(* calls made so far, each with the tool that made it and that tool's key. *)
(***************************************************************************)
ApiKeys == {None, "", "key"}
Topics == {"ai", "bio"}

InitService ==
    /\ InitClean /\ InitRead /\ InitCred /\ InitSumm /\ InitSearch /\ InitScrape
    /\ api_key_env \in ApiKeys
    /\ reqs = <<>> /\ threads = <<>> /\ tools = {} /\ emitted = <<>> /\ http_calls = {}

\* "if not self.api_key": None and "" are falsy
keyMissing(k) == k = None \/ k = ""

\* str(uuid.uuid4()), the n-th draw
uuid4(n) == "uuid-" \o ToString(n)

\* an event payload that reads the id of the latest request (a shared global)
completePayloadOfLatest(i) ==
    [event |-> "generation_complete", result |-> threads[i].result,
     request_id |-> reqs[Len(reqs)].request_id]

\* the payload of socketio.emit('generation_complete', ...)
completePayload(i) ==
    [event |-> "generation_complete", result |-> threads[i].result,
     request_id |-> threads[i].request_id]

\* the payload of socketio.emit('generation_error', ...)
errorPayload(i) ==
    [event |-> "generation_error",
     result |-> [final_output |-> "An error occurred during content generation."],
     request_id |-> threads[i].request_id]

\* generate(), up to and including Thread(...).start()
Generate ==
    /\ Len(reqs) < MaxRequests
    /\ \E topic \in Topics :
          LET id == uuid4(Len(reqs) + 1) IN
          /\ reqs' = Append(reqs, [topic |-> topic, request_id |-> id, status |-> 0])
          /\ threads' = Append(threads, [pc |-> "create_crew", topic |-> topic,
                                         request_id |-> id,
                                         result |-> [final_output |-> ""]])
    /\ UNCHANGED <<api_key_env, tools, emitted, http_calls>>
    /\ UNCHANGED <<cleanVars, readVars, credVars, summVars, searchVars, scrapeVars>>

\* generate(): return jsonify({... 'request_id': request_id}), 202
Respond(i) ==
    /\ reqs[i].status = 0
    /\ reqs' = [reqs EXCEPT ![i].status = 202]
    /\ UNCHANGED <<api_key_env, threads, tools, emitted, http_calls>>
    /\ UNCHANGED <<cleanVars, readVars, credVars, summVars, searchVars, scrapeVars>>

\* run_crew: crew = create_crew(...), which constructs AdvancedSerperSearchTool();
\* its __init__ raises ValueError when the key is missing
CreateCrew(i) ==
    /\ threads[i].pc = "create_crew"
    /\ IF keyMissing(api_key_env)
       THEN /\ threads' = [threads EXCEPT ![i].pc = "except"]
            /\ UNCHANGED tools
       ELSE /\ tools' = tools \cup {[owner |-> i, api_key |-> api_key_env]}
            /\ threads' = [threads EXCEPT ![i].pc = "kickoff"]
    /\ UNCHANGED <<api_key_env, reqs, emitted, http_calls>>
    /\ UNCHANGED <<cleanVars, readVars, credVars, summVars, searchVars, scrapeVars>>

\* crew_output = crew.kickoff(): the researcher may call the tool's _run (a
\* search, then page fetches); the call returns or raises
Kickoff(i) ==
    /\ threads[i].pc = "kickoff"
    /\ \E used \in BOOLEAN, raises \in BOOLEAN :
          /\ http_calls' =
                IF used
                THEN http_calls \cup
                       {[kind |-> k, tool |-> i, api_key |-> t.api_key] :
                          k \in {"search", "fetch"}, t \in {x \in tools : x.owner = i}}
                ELSE http_calls
          /\ threads' = IF raises
                        THEN [threads EXCEPT ![i].pc = "except"]
                        ELSE [threads EXCEPT ![i].pc = "emit",
                                 ![i].result = [final_output |-> threads[i].topic
                                                   \o " by crew " \o ToString(i)]]
    /\ UNCHANGED <<api_key_env, reqs, tools, emitted>>
    /\ UNCHANGED <<cleanVars, readVars, credVars, summVars, searchVars, scrapeVars>>

\* socketio.emit('generation_complete', {'result': result, 'request_id': request_id})
EmitComplete(i) ==
    /\ threads[i].pc = "emit"
    /\ emitted' = Append(emitted, completePayload(i))
    /\ threads' = [threads EXCEPT ![i].pc = "done"]
    /\ UNCHANGED <<api_key_env, reqs, tools, http_calls>>
    /\ UNCHANGED <<cleanVars, readVars, credVars, summVars, searchVars, scrapeVars>>

\* except Exception: app.logger.error(...); socketio.emit('generation_error', ...)
EmitError(i) ==
    /\ threads[i].pc = "except"
    /\ emitted' = Append(emitted, errorPayload(i))
    /\ threads' = [threads EXCEPT ![i].pc = "done"]
    /\ UNCHANGED <<api_key_env, reqs, tools, http_calls>>
    /\ UNCHANGED <<cleanVars, readVars, credVars, summVars, searchVars, scrapeVars>>

NextApp ==
    \/ Generate
    \/ \E i \in 1..Len(reqs) : Respond(i)
    \/ \E i \in 1..Len(threads) : CreateCrew(i)
    \/ \E i \in 1..Len(threads) : Kickoff(i)
    \/ \E i \in 1..Len(threads) : EmitComplete(i)
    \/ \E i \in 1..Len(threads) : EmitError(i)
SpecApp == InitService /\ [][NextApp]_vars

\* C5: a missing key stops the service before any request is processed: no
\* request is accepted (thread started, 202 answered) before a tool has been
\* constructed successfully, and no search or fetch goes out with a missing
\* key.
C5_KeyCheckedBeforeAnyRequest ==
    /\ Len(reqs) > 0 => tools # {}
    /\ \A c \in http_calls : ~keyMissing(c.api_key)

\* the terminal events emitted with the request id of request i
EventsOf(i) == {k \in 1..Len(emitted) : emitted[k].request_id = reqs[i].request_id}

\* C10: under any interleaving, each request gets 202 with an id of its own,
\* a thread of its own and a tool instance of its own, and its run emits
\* exactly one terminal event, generation_complete or generation_error, with
\* its own request id and its own result.
C10_RequestsIsolated ==
    /\ Len(threads) = Len(reqs)
    /\ \A i \in 1..Len(reqs) :
          /\ reqs[i].status \in {0, 202}
          /\ threads[i].request_id = reqs[i].request_id
          /\ \A j \in 1..Len(reqs) : i # j => reqs[i].request_id # reqs[j].request_id
          /\ threads[i].pc \in {"kickoff", "emit"} =>
                Cardinality({t \in tools : t.owner = i}) = 1
          /\ \A c \in http_calls : c.tool = i =>
                threads[i].pc \notin {"create_crew", "kickoff"}
          /\ Cardinality(EventsOf(i)) <= 1
          /\ threads[i].pc = "done" <=> Cardinality(EventsOf(i)) = 1
          /\ \A k \in EventsOf(i) :
                /\ emitted[k].event \in {"generation_complete", "generation_error"}
                /\ emitted[k].event = "generation_complete" =>
                      emitted[k].result.final_output
                          = reqs[i].topic \o " by crew " \o ToString(i)
    /\ \A k \in 1..Len(emitted) : \E i \in 1..Len(reqs) : k \in EventsOf(i)

\* two requests with the same topic ran interleaved; the second finished
\* first, with generation_complete, the first with generation_error
C10_Witness ==
    /\ Len(reqs) = 2 /\ reqs[1].status = 202 /\ reqs[2].status = 202
    /\ threads[1].pc = "done" /\ threads[2].pc = "done"
    /\ Len(emitted) = 2
    /\ emitted[1].request_id = reqs[2].request_id
    /\ emitted[1].event = "generation_complete"
    /\ emitted[2].event = "generation_error"
    /\ reqs[1].topic = reqs[2].topic

=============================================================================
